---- MODULE Spec2Model ----
(***************************************************************************)
(* Model of triage-party's collection orchestrator                         *)
(* (pkg/triage/collection.go): ExecuteCollection, SummarizeCollectionResult*)
(* avgDayDuration, FlushSearchCache and LookupCollection.                  *)
(*                                                                         *)
(* Conventions.                                                            *)
(*   - A Go error is the sequence of tokens its message is built from;     *)
(*     the nil error is <<>>.  fmt.Errorf("rule %q: %v", n, err) is        *)
(*     <<"rule", n>> \o err, so "the error carries X" is X \in Range(err). *)
(*   - A pointer result is <<>> (nil) or <<v>>.                            *)
(*   - float64 day totals are counted in units of 1/DayUnit day; the       *)
(*     values used are dyadic, for which the float64 arithmetic of         *)
(*     avgDayDuration is exact.  A time.Duration is counted in hours.      *)
(*   - CollectionResult.Time (a wall-clock stamp) is not modelled.         *)
(***************************************************************************)
EXTENDS Integers, Sequences, FiniteSets, TLC

VARIABLES
    \* ---- ExecuteCollection, one activation per run ----
    pc,         \* run -> "idle" | "loop" | "done"
    s,          \* run -> the Collection argument
    idx,        \* run -> index of the next element of s.RuleIDs
    os,         \* run -> []*RuleResult accumulated so far
    seen,       \* run -> map[string]*Rule (item URL -> rule ID)
    seenRule,   \* run -> map[string]bool, as the set of its true keys
    ret,        \* run -> [result, err] returned
    lookupLog,  \* run -> indexes of s.RuleIDs handed to LookupRule, in order
    evalLog,    \* run -> the ExecuteRule calls made, in order
    failing,    \* the rules whose evaluation fails (the rule engine's answer)
    \* ---- SummarizeCollectionResult as a pure function ----
    sumIn,      \* the []*RuleResult argument
    sumOut,     \* <<>> before the call, <<result>> after it
    \* ---- FlushSearchCache ----
    collections, \* p.collections
    fpc,        \* "idle" | "rules" | "repos" | "done"
    fid,        \* the id argument
    fMinAge,    \* the minAge argument
    fs,         \* the Collection found
    fi,         \* index of the next element of fs.RuleIDs
    ft,         \* the rule whose Repos are being ranged over
    fj,         \* index of the next element of ft.Repos
    flushed,    \* map[string]bool, as the set of its true keys
    flushLog,   \* the engine.FlushSearchCache requests made, in order
    fret,       \* the error returned
    \* ---- LookupCollection and ListCollections ----
    lkId,       \* the id argument of LookupCollection
    lkRet,      \* <<>> before the call, <<[coll, err]>> after it
    listRet,    \* <<>> before the call, <<[colls, err]>> after ListCollections
    \* ---- package tag: Dedup and RoleLast as pure functions ----
    tagIn,      \* the []Tag argument of Dedup
    tagOut,     \* <<>> before the call, <<Dedup(tagIn)>> after it
    tagOut2,    \* <<>>, then <<Dedup(Dedup(tagIn))>>
    roleIn,     \* the role argument of RoleLast
    roleOut     \* <<>> before the call, <<RoleLast(roleIn)>> after it

execVars == <<pc, s, idx, os, seen, seenRule, ret, lookupLog, evalLog, failing>>
sumVars == <<sumIn, sumOut>>
flushVars == <<collections, fpc, fid, fMinAge, fs, fi, ft, fj, flushed, flushLog, fret>>
lookVars == <<lkId, lkRet, listRet>>
tagVars == <<tagIn, tagOut, tagOut2, roleIn, roleOut>>
vars == <<execVars, sumVars, flushVars, lookVars, tagVars>>

\* ------------------------------------------------------------------ bounds

\* Longest RuleIDs list of a collection in the single-run specification.
MaxRuleIDs == 3
\* Longest RuleIDs list of a collection when two runs interleave.
MaxConcRuleIDs == 2
\* Longest argument of SummarizeCollectionResult.
MaxResults == 2
\* Longest RuleIDs list of the collection FlushSearchCache works on.
MaxFlushRuleIDs == 3
\* Day totals are counted in 1/DayUnit of a day.
DayUnit == 2
\* Longest rule list of the collections that differ in flags and labels only.
MaxFlagRuleIDs == 2
\* Most collections loaded when LookupCollection and ListCollections are called.
MaxCollections == 3
\* Longest argument of Dedup (besides the registry itself).
MaxTags == 3

\* ------------------------------------------------------------- generalities

Range(f) == {f[i] : i \in DOMAIN f}

Nil == <<>>

RECURSIVE SeqsUpTo(_, _)
SeqsUpTo(S, n) ==
    IF n = 0 THEN {<<>>}
    ELSE LET shorter == SeqsUpTo(S, n - 1)
         IN  shorter \cup {Append(q, x) : q \in {p \in shorter : Len(p) = n - 1}, x \in S}

Runs == {"r1", "r2"}

\* ------------------------------------------------------- the configuration

PullRequest == "pull_request"
Issue == "issue"

KnownRuleIDs == {"a", "b", "c"}
RuleIDs == KnownRuleIDs \cup {"x"}
CollIDs == {"daily", "weekly"}
MinAges == {"1h", "24h"}

\* p.rules: the rules the configuration defines.
RuleTable(id) ==
    CASE id = "a" -> [ID |-> "a", Name |-> "Rule A", Type |-> PullRequest,
                      Repos |-> <<"https://h/o1/p1", "https://h/o1/p2">>]
      [] id = "b" -> [ID |-> "b", Name |-> "Rule B", Type |-> Issue,
                      Repos |-> <<"https://h/o1/p2", "https://h/o1/p2", "https://h/o2/p1">>]
      [] id = "c" -> [ID |-> "c", Name |-> "Rule C", Type |-> PullRequest,
                      Repos |-> <<"https://h/o1/p1", "bad repo">>]

NoRule == [ID |-> "", Name |-> "", Type |-> "", Repos |-> <<>>]

\* Collection (the fields the orchestrator reads).
Collections(n) == [ID : CollIDs, RuleIDs : SeqsUpTo(RuleIDs, n)]

NoCollection == [ID |-> "", RuleIDs |-> <<>>]

\* --------------------------------------------------------- the collaborators

\* Party.LookupRule: the rule of that ID, or an error carrying the ID.
LookupRule(tid) ==
    IF tid \in KnownRuleIDs
    THEN [rule |-> RuleTable(tid), err |-> Nil]
    ELSE [rule |-> NoRule, err |-> <<"rule", tid, "is undefined">>]

\* The items a rule's search matches, and each item's age and hold times.
Candidates(id) ==
    CASE id = "a" -> <<"i1", "i2">>
      [] id = "b" -> <<"i2", "i3">>
      [] id = "c" -> <<"i3", "i1">>

ItemDays(u) ==
    CASE u = "i1" -> [age |-> 20, cur |-> 1, acc |-> 3]
      [] u = "i2" -> [age |-> 10, cur |-> 0, acc |-> 0]
      [] u = "i3" -> [age |-> 5, cur |-> 5, acc |-> 7]

RECURSIVE SumOver(_, _, _)
SumOver(items, field, i) ==
    IF i > Len(items) THEN 0
    ELSE ItemDays(items[i])[field] + SumOver(items, field, i + 1)

EmptySeen == [u \in {} |-> ""]

\* Party.ExecuteRule(ctx, t, seen): fails for the rules in failing; else the
\* result holds the rule's matches that are not yet in seen, which it records.
ExecuteRule(t, sn) ==
    IF t.ID \in failing
    THEN [ro |-> Nil, err |-> <<"search failed">>, seen |-> sn]
    ELSE LET new == SelectSeq(Candidates(t.ID), LAMBDA u : u \notin DOMAIN sn)
         IN  [ro |-> <<[Rule |-> t, Items |-> new,
                        TotalAgeDays |-> SumOver(new, "age", 1),
                        TotalCurrentHoldDays |-> SumOver(new, "cur", 1),
                        TotalAccumulatedHoldDays |-> SumOver(new, "acc", 1)]>>,
              err |-> Nil,
              seen |-> [u \in DOMAIN sn \cup Range(new) |->
                            IF u \in DOMAIN sn THEN sn[u] ELSE t.ID]]

\* ------------------------------------------------ SummarizeCollectionResult

\* r := &CollectionResult{}
ZeroCollectionResult ==
    [RuleResults |-> <<>>, Total |-> 0, TotalPullRequests |-> 0, TotalIssues |-> 0,
     AvgAge |-> 0, AvgCurrentHold |-> 0, AvgAccumulatedHold |-> 0,
     TotalAgeDays |-> 0, TotalCurrentHoldDays |-> 0, TotalAccumulatedHoldDays |-> 0]

\* int64(f): the conversion discards the fraction (towards zero).
TruncDiv(n, d) == IF n >= 0 THEN n \div d ELSE -((-n) \div d)

avgDayDurationRounded(total, count) == (2 * total * 24 + DayUnit * count) \div (2 * DayUnit * count)

\* time.Duration(int64(total/float64(count)*24)) * time.Hour, in hours;
\* total is in 1/DayUnit days.
avgDayDuration(total, count) == TruncDiv(total * 24, DayUnit * count)

FoldTypeBlind(r, oc) ==
    [r EXCEPT !.Total = @ + Len(oc.Items),
              !.TotalPullRequests = @ + Len(oc.Items),
              !.RuleResults = Append(@, oc),
              !.TotalAgeDays = @ + oc.TotalAgeDays,
              !.TotalCurrentHoldDays = @ + oc.TotalCurrentHoldDays,
              !.TotalAccumulatedHoldDays = @ + oc.TotalAccumulatedHoldDays]

\* The body of the loop over os: one rule result folded into r.
Fold(r, oc) ==
    [r EXCEPT !.Total = @ + Len(oc.Items),
              !.TotalPullRequests =
                  IF oc.Rule.Type = PullRequest THEN @ + Len(oc.Items) ELSE @,
              !.TotalIssues =
                  IF oc.Rule.Type = PullRequest THEN @ ELSE @ + Len(oc.Items),
              !.RuleResults = Append(@, oc),
              !.TotalAgeDays = @ + oc.TotalAgeDays,
              !.TotalCurrentHoldDays = @ + oc.TotalCurrentHoldDays,
              !.TotalAccumulatedHoldDays = @ + oc.TotalAccumulatedHoldDays]

RECURSIVE SummarizeLoop(_, _, _)
SummarizeLoop(rs, i, r) ==
    IF i > Len(rs) THEN r ELSE SummarizeLoop(rs, i + 1, Fold(r, rs[i]))

WithAverages(r) ==
    [r EXCEPT !.AvgAge = avgDayDuration(r.TotalAgeDays, r.Total),
              !.AvgCurrentHold = avgDayDuration(r.TotalCurrentHoldDays, r.Total),
              !.AvgAccumulatedHold = avgDayDuration(r.TotalAccumulatedHoldDays, r.Total)]

AveragesAlways(r) ==
    IF r.Total = 0 THEN [r EXCEPT !.AvgAge = (r.TotalAgeDays * 24) \div DayUnit,
                                  !.AvgCurrentHold = (r.TotalCurrentHoldDays * 24) \div DayUnit,
                                  !.AvgAccumulatedHold = (r.TotalAccumulatedHoldDays * 24) \div DayUnit]
    ELSE WithAverages(r)

\* if r.Total == 0 { return r }; else the three averages are set.
Averages(r) == IF r.Total = 0 THEN r ELSE WithAverages(r)

SummarizeCollectionResult(rs) == Averages(SummarizeLoop(rs, 1, ZeroCollectionResult))

\* ---------------------------------------------------------- ExecuteCollection

IsDuplicateNever(r, tid) == FALSE

IsDuplicateAnyRun(r, tid) == \E q \in Runs : tid \in seenRule[q]

\* if seenRule[tid]
IsDuplicate(r, tid) == tid \in seenRule[r]

SeenArgFresh(r) == EmptySeen

SeenArgIfDedup(r) == IF s[r].Dedup THEN seen[r] ELSE EmptySeen

\* The seen argument of p.ExecuteRule(ctx, t, seen): the run's own map.
SeenArg(r) == seen[r]

LookupErrorWithCollection(r, err) == <<"collection", s[r].ID>> \o err

\* return nil, err   (LookupRule's error)
LookupError(r, err) == err

\* fmt.Errorf("rule %q: %v", t.Name, err)
RuleError(t, err) == <<"rule", t.Name>> \o err

Tid(r) == s[r].RuleIDs[idx[r]]

\* The call: os, seen and seenRule are created empty.
ExecStart(r, c) ==
    /\ pc[r] = "idle"
    /\ pc' = [pc EXCEPT ![r] = "loop"]
    /\ s' = [s EXCEPT ![r] = c]
    /\ idx' = [idx EXCEPT ![r] = 1]
    /\ os' = [os EXCEPT ![r] = <<>>]
    /\ seen' = [seen EXCEPT ![r] = EmptySeen]
    /\ seenRule' = [seenRule EXCEPT ![r] = {}]
    /\ UNCHANGED <<ret, lookupLog, evalLog, failing, sumVars, flushVars, lookVars, tagVars>>

\* A repeated rule ID: logged, skipped.
ExecSkipDuplicate(r) ==
    /\ pc[r] = "loop"
    /\ idx[r] <= Len(s[r].RuleIDs)
    /\ IsDuplicate(r, Tid(r))
    /\ idx' = [idx EXCEPT ![r] = @ + 1]
    /\ UNCHANGED <<pc, s, os, seen, seenRule, ret, lookupLog, evalLog, failing, sumVars, flushVars, lookVars, tagVars>>

ExecLookupFailContinue(r) ==
    /\ pc[r] = "loop"
    /\ idx[r] <= Len(s[r].RuleIDs)
    /\ ~IsDuplicate(r, Tid(r))
    /\ LookupRule(Tid(r)).err # Nil
    /\ seenRule' = [seenRule EXCEPT ![r] = @ \cup {Tid(r)}]
    /\ lookupLog' = [lookupLog EXCEPT ![r] = Append(@, idx[r])]
    /\ idx' = [idx EXCEPT ![r] = @ + 1]
    /\ UNCHANGED <<pc, s, os, seen, ret, evalLog, failing, sumVars, flushVars, lookVars, tagVars>>

\* A rule ID LookupRule does not know: the run returns nil and its error.
ExecLookupFail(r) ==
    /\ pc[r] = "loop"
    /\ idx[r] <= Len(s[r].RuleIDs)
    /\ ~IsDuplicate(r, Tid(r))
    /\ LookupRule(Tid(r)).err # Nil
    /\ seenRule' = [seenRule EXCEPT ![r] = @ \cup {Tid(r)}]
    /\ lookupLog' = [lookupLog EXCEPT ![r] = Append(@, idx[r])]
    /\ ret' = [ret EXCEPT ![r] = [result |-> Nil,
                                  err |-> LookupError(r, LookupRule(Tid(r)).err)]]
    /\ pc' = [pc EXCEPT ![r] = "done"]
    /\ UNCHANGED <<s, idx, os, seen, evalLog, failing, sumVars, flushVars, lookVars, tagVars>>

ExecEvalFailContinue(r) ==
    /\ pc[r] = "loop"
    /\ idx[r] <= Len(s[r].RuleIDs)
    /\ ~IsDuplicate(r, Tid(r))
    /\ LookupRule(Tid(r)).err = Nil
    /\ LET t == LookupRule(Tid(r)).rule
           ex == ExecuteRule(t, SeenArg(r))
       IN  /\ ex.err # Nil
           /\ seen' = [seen EXCEPT ![r] = ex.seen]
           /\ evalLog' = [evalLog EXCEPT ![r] =
                  Append(@, [at |-> idx[r], rule |-> t.ID, name |-> t.Name,
                             seenIn |-> SeenArg(r), seenOut |-> ex.seen,
                             failed |-> TRUE])]
    /\ seenRule' = [seenRule EXCEPT ![r] = @ \cup {Tid(r)}]
    /\ lookupLog' = [lookupLog EXCEPT ![r] = Append(@, idx[r])]
    /\ idx' = [idx EXCEPT ![r] = @ + 1]
    /\ UNCHANGED <<pc, s, os, ret, failing, sumVars, flushVars, lookVars, tagVars>>

\* The rule's evaluation fails: the run returns nil and the wrapped error.
ExecEvalFail(r) ==
    /\ pc[r] = "loop"
    /\ idx[r] <= Len(s[r].RuleIDs)
    /\ ~IsDuplicate(r, Tid(r))
    /\ LookupRule(Tid(r)).err = Nil
    /\ LET t == LookupRule(Tid(r)).rule
           ex == ExecuteRule(t, SeenArg(r))
       IN  /\ ex.err # Nil
           /\ seen' = [seen EXCEPT ![r] = ex.seen]
           /\ evalLog' = [evalLog EXCEPT ![r] =
                  Append(@, [at |-> idx[r], rule |-> t.ID, name |-> t.Name,
                             seenIn |-> SeenArg(r), seenOut |-> ex.seen,
                             failed |-> TRUE])]
           /\ ret' = [ret EXCEPT ![r] = [result |-> Nil, err |-> RuleError(t, ex.err)]]
    /\ seenRule' = [seenRule EXCEPT ![r] = @ \cup {Tid(r)}]
    /\ lookupLog' = [lookupLog EXCEPT ![r] = Append(@, idx[r])]
    /\ pc' = [pc EXCEPT ![r] = "done"]
    /\ UNCHANGED <<s, idx, os, failing, sumVars, flushVars, lookVars, tagVars>>

\* The rule is found and evaluated: its result is appended to os.
ExecEvalOK(r) ==
    /\ pc[r] = "loop"
    /\ idx[r] <= Len(s[r].RuleIDs)
    /\ ~IsDuplicate(r, Tid(r))
    /\ LookupRule(Tid(r)).err = Nil
    /\ LET t == LookupRule(Tid(r)).rule
           ex == ExecuteRule(t, SeenArg(r))
       IN  /\ ex.err = Nil
           /\ seen' = [seen EXCEPT ![r] = ex.seen]
           /\ evalLog' = [evalLog EXCEPT ![r] =
                  Append(@, [at |-> idx[r], rule |-> t.ID, name |-> t.Name,
                             seenIn |-> SeenArg(r), seenOut |-> ex.seen,
                             failed |-> FALSE])]
           /\ os' = [os EXCEPT ![r] = Append(@, ex.ro[1])]
    /\ seenRule' = [seenRule EXCEPT ![r] = @ \cup {Tid(r)}]
    /\ lookupLog' = [lookupLog EXCEPT ![r] = Append(@, idx[r])]
    /\ idx' = [idx EXCEPT ![r] = @ + 1]
    /\ UNCHANGED <<pc, s, ret, failing, sumVars, flushVars, lookVars, tagVars>>

\* The loop is over: r := SummarizeCollectionResult(os); return r, nil.
ExecReturn(r) ==
    /\ pc[r] = "loop"
    /\ idx[r] > Len(s[r].RuleIDs)
    /\ ret' = [ret EXCEPT ![r] = [result |-> <<SummarizeCollectionResult(os[r])>>,
                                  err |-> Nil]]
    /\ pc' = [pc EXCEPT ![r] = "done"]
    /\ UNCHANGED <<s, idx, os, seen, seenRule, lookupLog, evalLog, failing, sumVars, flushVars, lookVars, tagVars>>

ExecIdle ==
    /\ pc = [r \in Runs |-> "idle"]
    /\ s = [r \in Runs |-> NoCollection]
    /\ idx = [r \in Runs |-> 1]
    /\ os = [r \in Runs |-> <<>>]
    /\ seen = [r \in Runs |-> EmptySeen]
    /\ seenRule = [r \in Runs |-> {}]
    /\ ret = [r \in Runs |-> [result |-> Nil, err |-> Nil]]
    /\ lookupLog = [r \in Runs |-> <<>>]
    /\ evalLog = [r \in Runs |-> <<>>]

SumIdle ==
    /\ sumIn = <<>>
    /\ sumOut = <<>>

LookIdle ==
    /\ lkId = ""
    /\ lkRet = <<>>
    /\ listRet = <<>>

TagIdle ==
    /\ tagIn = <<>>
    /\ tagOut = <<>>
    /\ tagOut2 = <<>>
    /\ roleIn = <<>>
    /\ roleOut = <<>>

FlushIdle ==
    /\ collections = <<>>
    /\ fpc = "idle"
    /\ fid = ""
    /\ fMinAge = ""
    /\ fs = NoCollection
    /\ fi = 1
    /\ ft = NoRule
    /\ fj = 1
    /\ flushed = {}
    /\ flushLog = <<>>
    /\ fret = Nil

\* ------------------------------------------- one run of ExecuteCollection

Init ==
    /\ ExecIdle
    /\ failing \in SUBSET KnownRuleIDs
    /\ SumIdle
    /\ FlushIdle
    /\ LookIdle
    /\ TagIdle

Next ==
    \/ \E c \in Collections(MaxRuleIDs) : ExecStart("r1", c)
    \/ ExecSkipDuplicate("r1")
    \/ ExecLookupFail("r1")
    \/ ExecEvalFail("r1")
    \/ ExecEvalOK("r1")
    \/ ExecReturn("r1")

Spec == Init /\ [][Next]_vars

\* ------------------------------------ two interleaved runs of ExecuteCollection

ConcCollections == {c \in Collections(MaxConcRuleIDs) : c.ID = "daily"}

NextConc ==
    \/ \E r \in Runs, c \in ConcCollections : ExecStart(r, c)
    \/ \E r \in Runs : ExecSkipDuplicate(r)
    \/ \E r \in Runs : ExecLookupFail(r)
    \/ \E r \in Runs : ExecEvalFail(r)
    \/ \E r \in Runs : ExecEvalOK(r)
    \/ \E r \in Runs : ExecReturn(r)

SpecConc == Init /\ [][NextConc]_vars

\* ------------------------------- SummarizeCollectionResult on any rule results

DayTotals ==
    {[age |-> 0, cur |-> 0, acc |-> 0],
     [age |-> 10 * DayUnit, cur |-> 1, acc |-> 3],
     [age |-> 5 * DayUnit, cur |-> 0, acc |-> 7],
     [age |-> 7, cur |-> 5, acc |-> 7]}

ItemLists == {<<>>, <<"i1">>, <<"i1", "i2">>, <<"i1", "i2", "i3", "i4", "i5">>}

\* The RuleResult values the rule engine may hand over.
RuleResults ==
    {[Rule |-> RuleTable(id), Items |-> it, TotalAgeDays |-> d.age,
      TotalCurrentHoldDays |-> d.cur, TotalAccumulatedHoldDays |-> d.acc] :
        id \in {"a", "b"}, it \in ItemLists, d \in DayTotals}

Summarize ==
    /\ sumOut = <<>>
    /\ sumOut' = <<SummarizeCollectionResult(sumIn)>>
    /\ UNCHANGED <<sumIn, execVars, flushVars, lookVars, tagVars>>

InitSum ==
    /\ ExecIdle
    /\ failing = {}
    /\ sumIn \in SeqsUpTo(RuleResults, MaxResults)
    /\ sumOut = <<>>
    /\ FlushIdle
    /\ LookIdle
    /\ TagIdle

NextSum == Summarize

SpecSum == InitSum /\ [][NextSum]_vars

\* ------------------------------------------------------------ FlushSearchCache

\* parseRepo(ref): the organization and project of a repository reference, or
\* an error for a reference that has not that form.
parseRepo(ref) ==
    CASE ref = "https://h/o1/p1" -> [org |-> "o1", project |-> "p1", err |-> Nil]
      [] ref = "https://h/o1/p2" -> [org |-> "o1", project |-> "p2", err |-> Nil]
      [] ref = "https://h/o2/p1" -> [org |-> "o2", project |-> "p1", err |-> Nil]
      [] OTHER -> [org |-> "", project |-> "", err |-> <<"cannot parse", ref>>]

RECURSIVE LookupCollectionLast(_, _)
LookupCollectionLast(id, i) ==
    IF i > Len(collections)
    THEN [coll |-> NoCollection, err |-> <<id, "not found">>]
    ELSE LET rest == LookupCollectionLast(id, i + 1)
         IN  IF rest.err = Nil THEN rest
             ELSE IF collections[i].ID = id
                  THEN [coll |-> collections[i], err |-> Nil]
                  ELSE rest

RECURSIVE LookupCollectionFrom(_, _)
LookupCollectionFrom(id, i) ==
    IF i > Len(collections)
    THEN [coll |-> NoCollection, err |-> <<id, "not found">>]
    ELSE IF collections[i].ID = id
         THEN [coll |-> collections[i], err |-> Nil]
         ELSE LookupCollectionFrom(id, i + 1)

\* Party.LookupCollection: the first loaded collection of that ID.
LookupCollection(id) == LookupCollectionFrom(id, 1)

IsFlushedNever(ref) == FALSE

\* flushed[r]
IsFlushed(ref) == ref \in flushed

FRepo == ft.Repos[fj]

\* The collection ID is unknown: its lookup error is returned.
FlushCollectionNotFound(id, minAge) ==
    /\ fpc = "idle"
    /\ LookupCollection(id).err # Nil
    /\ fid' = id
    /\ fMinAge' = minAge
    /\ fret' = LookupCollection(id).err
    /\ fpc' = "done"
    /\ UNCHANGED <<collections, fs, fi, ft, fj, flushed, flushLog, execVars, sumVars, lookVars, tagVars>>

\* The collection is found; flushed is created empty.
FlushStart(id, minAge) ==
    /\ fpc = "idle"
    /\ LookupCollection(id).err = Nil
    /\ fid' = id
    /\ fMinAge' = minAge
    /\ fs' = LookupCollection(id).coll
    /\ fi' = 1
    /\ flushed' = {}
    /\ fpc' = "rules"
    /\ UNCHANGED <<collections, ft, fj, flushLog, fret, execVars, sumVars, lookVars, tagVars>>

FlushRuleNotFoundSkip ==
    /\ fpc = "rules"
    /\ fi <= Len(fs.RuleIDs)
    /\ LookupRule(fs.RuleIDs[fi]).err # Nil
    /\ fi' = fi + 1
    /\ UNCHANGED <<collections, fpc, fid, fMinAge, fs, ft, fj, flushed, flushLog, fret,
                   execVars, sumVars, lookVars, tagVars>>

\* A rule ID LookupRule does not know: its error is returned.
FlushRuleNotFound ==
    /\ fpc = "rules"
    /\ fi <= Len(fs.RuleIDs)
    /\ LookupRule(fs.RuleIDs[fi]).err # Nil
    /\ fret' = LookupRule(fs.RuleIDs[fi]).err
    /\ fpc' = "done"
    /\ UNCHANGED <<collections, fid, fMinAge, fs, fi, ft, fj, flushed, flushLog,
                   execVars, sumVars, lookVars, tagVars>>

\* The rule is found: its Repos are ranged over.
FlushRule ==
    /\ fpc = "rules"
    /\ fi <= Len(fs.RuleIDs)
    /\ LookupRule(fs.RuleIDs[fi]).err = Nil
    /\ ft' = LookupRule(fs.RuleIDs[fi]).rule
    /\ fj' = 1
    /\ fpc' = "repos"
    /\ UNCHANGED <<collections, fid, fMinAge, fs, fi, flushed, flushLog, fret,
                   execVars, sumVars, lookVars, tagVars>>

\* A repository already flushed in this call is passed over.
FlushSkipRepo ==
    /\ fpc = "repos"
    /\ fj <= Len(ft.Repos)
    /\ IsFlushed(FRepo)
    /\ fj' = fj + 1
    /\ UNCHANGED <<collections, fpc, fid, fMinAge, fs, fi, ft, flushed, flushLog, fret,
                   execVars, sumVars, lookVars, tagVars>>

FlushParseFailSkip ==
    /\ fpc = "repos"
    /\ fj <= Len(ft.Repos)
    /\ ~IsFlushed(FRepo)
    /\ parseRepo(FRepo).err # Nil
    /\ fj' = fj + 1
    /\ UNCHANGED <<collections, fpc, fid, fMinAge, fs, fi, ft, flushed, flushLog, fret,
                   execVars, sumVars, lookVars, tagVars>>

\* A repository reference parseRepo rejects: its error is returned.
FlushParseFail ==
    /\ fpc = "repos"
    /\ fj <= Len(ft.Repos)
    /\ ~IsFlushed(FRepo)
    /\ parseRepo(FRepo).err # Nil
    /\ fret' = parseRepo(FRepo).err
    /\ fpc' = "done"
    /\ UNCHANGED <<collections, fid, fMinAge, fs, fi, ft, fj, flushed, flushLog,
                   execVars, sumVars, lookVars, tagVars>>

\* p.engine.FlushSearchCache(org, project, minAge) and flushed[r] = true; the
\* engine's answer (failed) is its own, and a failure is only logged.
FlushRequest(failed) ==
    /\ fpc = "repos"
    /\ fj <= Len(ft.Repos)
    /\ ~IsFlushed(FRepo)
    /\ parseRepo(FRepo).err = Nil
    /\ flushLog' = Append(flushLog, [repo |-> FRepo, org |-> parseRepo(FRepo).org,
                                     project |-> parseRepo(FRepo).project,
                                     minAge |-> fMinAge, failed |-> failed])
    /\ flushed' = flushed \cup {FRepo}
    /\ fj' = fj + 1
    /\ UNCHANGED <<collections, fpc, fid, fMinAge, fs, fi, ft, fret, execVars, sumVars, lookVars, tagVars>>

FlushRepoOK == FlushRequest(FALSE)

FlushRepoWarnAbort ==
    /\ fpc = "repos"
    /\ fj <= Len(ft.Repos)
    /\ ~IsFlushed(FRepo)
    /\ parseRepo(FRepo).err = Nil
    /\ flushLog' = Append(flushLog, [repo |-> FRepo, org |-> parseRepo(FRepo).org,
                                     project |-> parseRepo(FRepo).project,
                                     minAge |-> fMinAge, failed |-> TRUE])
    /\ fret' = <<"flush failed">>
    /\ fpc' = "done"
    /\ UNCHANGED <<collections, fid, fMinAge, fs, fi, ft, fj, flushed,
                   execVars, sumVars, lookVars, tagVars>>

FlushRepoWarn == FlushRequest(TRUE)

\* The rule's Repos are exhausted: on to the next rule ID.
FlushRuleDone ==
    /\ fpc = "repos"
    /\ fj > Len(ft.Repos)
    /\ fi' = fi + 1
    /\ fpc' = "rules"
    /\ UNCHANGED <<collections, fid, fMinAge, fs, ft, fj, flushed, flushLog, fret,
                   execVars, sumVars, lookVars, tagVars>>

\* The rule IDs are exhausted: return nil.
FlushReturn ==
    /\ fpc = "rules"
    /\ fi > Len(fs.RuleIDs)
    /\ fret' = Nil
    /\ fpc' = "done"
    /\ UNCHANGED <<collections, fid, fMinAge, fs, fi, ft, fj, flushed, flushLog,
                   execVars, sumVars, lookVars, tagVars>>

InitFlush ==
    /\ ExecIdle
    /\ failing = {}
    /\ SumIdle
    /\ collections \in {<<c>> : c \in Collections(MaxFlushRuleIDs)}
    /\ fpc = "idle"
    /\ fid = ""
    /\ fMinAge = ""
    /\ fs = NoCollection
    /\ fi = 1
    /\ ft = NoRule
    /\ fj = 1
    /\ flushed = {}
    /\ flushLog = <<>>
    /\ fret = Nil
    /\ LookIdle
    /\ TagIdle

NextFlush ==
    \/ \E id \in CollIDs, minAge \in MinAges : FlushCollectionNotFound(id, minAge)
    \/ \E id \in CollIDs, minAge \in MinAges : FlushStart(id, minAge)
    \/ FlushRuleNotFound
    \/ FlushRule
    \/ FlushSkipRepo
    \/ FlushParseFail
    \/ FlushRepoOK
    \/ FlushRepoWarn
    \/ FlushRuleDone
    \/ FlushReturn

SpecFlush == InitFlush /\ [][NextFlush]_vars

\* ----------------------------------------------------------- package tag

\* A string of package tag is the sequence of the pieces it is built from:
\* fmt.Sprintf("%s-last", role) is role \o <<"-last">>, and two strings are
\* equal when their sequences are.
Tag(id, desc, comments, reviews, timeline) ==
    [ID |-> id, Desc |-> desc, NeedsComments |-> comments,
     NeedsReviews |-> reviews, NeedsTimeline |-> timeline]

Assigned ==
    Tag(<<"assigned">>, <<"Someone is assigned">>, FALSE, FALSE, FALSE)

Closed ==
    Tag(<<"closed">>, <<"This item has been closed">>, FALSE, FALSE, FALSE)

OpenMilestone ==
    Tag(<<"open-milestone">>, <<"The issue is associated to an open milestone">>, FALSE, FALSE, FALSE)

Similar ==
    Tag(<<"similar">>, <<"Title appears similar to another PR or issue">>, FALSE, FALSE, FALSE)

Merged ==
    Tag(<<"merged">>, <<"PR was merged">>, FALSE, FALSE, FALSE)

Draft ==
    Tag(<<"draft">>, <<"Draft PR">>, FALSE, FALSE, FALSE)

Commented ==
    Tag(<<"commented">>, <<"A project member has commented on this">>, TRUE, FALSE, FALSE)

Send ==
    Tag(<<"send">>, <<"A project member commented more recently than the author">>, TRUE, FALSE, FALSE)

Recv ==
    Tag(<<"recv">>, <<"The author commented more recently than a project member">>, TRUE, FALSE, FALSE)

RecvQ ==
    Tag(<<"recv-q">>, <<"The author has asked a question since the last project member commented">>, TRUE, FALSE, FALSE)

AuthorLast ==
    Tag(<<"author", "-last">>, <<"The last commenter was the original author">>, TRUE, FALSE, FALSE)

AssigneeUpdated ==
    Tag(<<"assignee-updated">>, <<"Issue has been updated by its assignee">>, TRUE, FALSE, FALSE)

XrefApprovedAsApproved ==
    Tag(<<"approved">>, <<"Last review was an approval">>, FALSE, FALSE, TRUE)

XrefApproved ==
    Tag(<<"pr-approved">>, <<"Last review was an approval">>, FALSE, FALSE, TRUE)

XrefReviewedWithComment ==
    Tag(<<"pr-reviewed-with-comment">>, <<"Last review was a comment">>, FALSE, FALSE, TRUE)

XrefChangesRequested ==
    Tag(<<"pr-changes-requested">>, <<"Last review was a request for changes">>, FALSE, FALSE, TRUE)

XrefNewCommits ==
    Tag(<<"pr-new-commits">>, <<"PR has commits since the last review">>, FALSE, FALSE, TRUE)

XrefPushedAfterApproval ==
    Tag(<<"pr-pushed-after-approval">>, <<"PR was pushed to after approval">>, FALSE, FALSE, TRUE)

XrefUnreviewed ==
    Tag(<<"pr-unreviewed">>, <<"PR has never been reviewed">>, FALSE, FALSE, TRUE)

Approved ==
    Tag(<<"approved">>, <<"Last review was an approval">>, FALSE, TRUE, FALSE)

ReviewedWithComment ==
    Tag(<<"reviewed-with-comment">>, <<"Last review was a comment">>, FALSE, TRUE, FALSE)

ChangesRequested ==
    Tag(<<"changes-requested">>, <<"Last review was a request for changes">>, FALSE, TRUE, FALSE)

NewCommits ==
    Tag(<<"new-commits">>, <<"PR has commits since the last review">>, FALSE, TRUE, FALSE)

PushedAfterApproval ==
    Tag(<<"pushed-after-approval">>, <<"PR was pushed to after approval">>, FALSE, TRUE, FALSE)

Unreviewed ==
    Tag(<<"unreviewed">>, <<"PR has never been reviewed">>, FALSE, TRUE, FALSE)

None ==
    Tag(<<"none">>, <<"No tag matched">>, TRUE, TRUE, TRUE)

\* Every tag the var block declares, in declaration order.
DeclaredTags ==
    <<Assigned, Closed, OpenMilestone, Similar,
      Merged, Draft, Commented, Send,
      Recv, RecvQ, AuthorLast, AssigneeUpdated,
      XrefApproved, XrefReviewedWithComment, XrefChangesRequested, XrefNewCommits,
      XrefPushedAfterApproval, XrefUnreviewed, Approved, ReviewedWithComment,
      ChangesRequested, NewCommits, PushedAfterApproval, Unreviewed,
      None>>

\* var Tags = []Tag{...}
Tags ==
    <<Assigned, Closed, OpenMilestone, Similar,
      Merged, Draft, Commented, Send,
      Recv, RecvQ, AuthorLast, AssigneeUpdated,
      Approved, ReviewedWithComment, ChangesRequested, NewCommits,
      PushedAfterApproval, Unreviewed, XrefApproved, XrefReviewedWithComment,
      XrefChangesRequested, XrefNewCommits, XrefPushedAfterApproval, XrefUnreviewed>>

RoleLastNeedsComments(role) ==
    Tag(role \o <<"-last">>, <<"The last commenter was a project ">> \o role,
        TRUE, FALSE, FALSE)

\* Tag{ID: fmt.Sprintf("%s-last", role),
\*     Desc: fmt.Sprintf("The last commenter was a project %s", role)}
RoleLast(role) ==
    Tag(role \o <<"-last">>, <<"The last commenter was a project ">> \o role,
        FALSE, FALSE, FALSE)

RECURSIVE DedupLoopByValue(_, _, _, _)
DedupLoopByValue(tags, i, deduped, sn) ==
    IF i > Len(tags) THEN deduped
    ELSE IF tags[i] \in sn THEN DedupLoopByValue(tags, i + 1, deduped, sn)
    ELSE DedupLoopByValue(tags, i + 1, Append(deduped, tags[i]), sn \cup {tags[i]})

RECURSIVE DedupLoopForgetful(_, _, _, _)
DedupLoopForgetful(tags, i, deduped, sn) ==
    IF i > Len(tags) THEN deduped
    ELSE IF tags[i].ID \in sn
         THEN DedupLoopForgetful(tags, i + 1, deduped, sn \ {tags[i].ID})
    ELSE DedupLoopForgetful(tags, i + 1, Append(deduped, tags[i]), sn \cup {tags[i].ID})

\* for _, t := range tags: skip t when seen[t.ID], else append it and set
\* seen[t.ID]; sn is the set of the true keys of seen.
RECURSIVE DedupLoop(_, _, _, _)
DedupLoop(tags, i, deduped, sn) ==
    IF i > Len(tags) THEN deduped
    ELSE IF tags[i].ID \in sn THEN DedupLoop(tags, i + 1, deduped, sn)
    ELSE DedupLoop(tags, i + 1, Append(deduped, tags[i]), sn \cup {tags[i].ID})

Dedup(tags) == DedupLoop(tags, 1, <<>>, {})

\* The role strings RoleLast is called with ("" among them).
Roles == {<<"author">>, <<"maintainer">>, <<"member">>, <<>>}

\* The tags Dedup's arguments are made of: two registry tags, a tag with a
\* registry ID and other fields, and RoleLast("author"), whose ID is
\* AuthorLast's.
TagPool ==
    {Approved, Closed, AuthorLast, RoleLast(<<"author">>),
     Tag(<<"approved">>, <<"Approved by a maintainer">>, TRUE, FALSE, TRUE)}

DedupCall ==
    /\ tagOut = <<>>
    /\ tagOut' = <<Dedup(tagIn)>>
    /\ UNCHANGED <<tagIn, tagOut2, roleIn, roleOut, execVars, sumVars, flushVars, lookVars>>

\* Dedup applied to its own result.
DedupAgain ==
    /\ tagOut # <<>>
    /\ tagOut2 = <<>>
    /\ tagOut2' = <<Dedup(tagOut[1])>>
    /\ UNCHANGED <<tagIn, tagOut, roleIn, roleOut, execVars, sumVars, flushVars, lookVars>>

RoleLastCall(role) ==
    /\ roleOut = <<>>
    /\ roleIn' = role
    /\ roleOut' = <<RoleLast(role)>>
    /\ UNCHANGED <<tagIn, tagOut, tagOut2, execVars, sumVars, flushVars, lookVars>>

InitTag ==
    /\ ExecIdle
    /\ failing = {}
    /\ SumIdle
    /\ FlushIdle
    /\ LookIdle
    /\ tagIn \in SeqsUpTo(TagPool, MaxTags) \cup {Tags}
    /\ tagOut = <<>>
    /\ tagOut2 = <<>>
    /\ roleIn = <<>>
    /\ roleOut = <<>>

NextTag ==
    \/ DedupCall
    \/ DedupAgain
    \/ \E role \in Roles : RoleLastCall(role)

SpecTag == InitTag /\ [][NextTag]_vars

\* ------------------------------------ LookupCollection and ListCollections

\* The collections p.collections is loaded with: two of one ID, told apart by
\* their rules.
LoadedPool ==
    {[ID |-> "daily", RuleIDs |-> <<"a">>],
     [ID |-> "daily", RuleIDs |-> <<"b">>],
     [ID |-> "weekly", RuleIDs |-> <<"a">>]}

\* The IDs asked for: loaded ones, one never loaded, one differing in case.
LookupIDs == {"daily", "weekly", "monthly", "Daily"}

LookupCollectionCall(id) ==
    /\ lkId' = id
    /\ lkRet' = <<LookupCollection(id)>>
    /\ UNCHANGED <<listRet, execVars, sumVars, flushVars, tagVars>>

\* return p.collections, nil
ListCollectionsCall ==
    /\ listRet' = <<[colls |-> collections, err |-> Nil]>>
    /\ UNCHANGED <<lkId, lkRet, execVars, sumVars, flushVars, tagVars>>

InitLookup ==
    /\ ExecIdle
    /\ failing = {}
    /\ SumIdle
    /\ collections \in SeqsUpTo(LoadedPool, MaxCollections)
    /\ fpc = "idle"
    /\ fid = ""
    /\ fMinAge = ""
    /\ fs = NoCollection
    /\ fi = 1
    /\ ft = NoRule
    /\ fj = 1
    /\ flushed = {}
    /\ flushLog = <<>>
    /\ fret = Nil
    /\ LookIdle
    /\ TagIdle

NextLookup ==
    \/ \E id \in LookupIDs : LookupCollectionCall(id)
    \/ ListCollectionsCall

SpecLookup == InitLookup /\ [][NextLookup]_vars

\* ------------- ExecuteCollection on collections differing in flags and labels

\* The Name and Description pairs of a collection.
Labels == {[Name |-> "Daily", Description |-> ""],
           [Name |-> "Other", Description |-> "text"]}

\* A Collection with all its fields.
FullCollection(id, rules, label, dedup, hidden, stats) ==
    [ID |-> id, Name |-> label.Name, Description |-> label.Description,
     RuleIDs |-> rules, Dedup |-> dedup, Hidden |-> hidden, UsedForStats |-> stats]

\* The collections of the first run: no flag set.
PlainCollections ==
    {FullCollection("daily", rules, [Name |-> "Daily", Description |-> ""],
                    FALSE, FALSE, FALSE) :
        rules \in SeqsUpTo(RuleIDs, MaxFlagRuleIDs)}

\* The collections of c's ID and rule IDs, with any flags and labels.
FlagVariants(c) ==
    {FullCollection(c.ID, c.RuleIDs, label, dedup, hidden, stats) :
        label \in Labels, dedup \in BOOLEAN, hidden \in BOOLEAN, stats \in BOOLEAN}

\* The second run starts when the first has returned, on a variant of its
\* collection, with the same collaborators.
ExecStartVariant ==
    /\ pc["r1"] = "done"
    /\ \E c \in FlagVariants(s["r1"]) : ExecStart("r2", c)

NextFlags ==
    \/ \E c \in PlainCollections : ExecStart("r1", c)
    \/ ExecStartVariant
    \/ \E r \in Runs : ExecSkipDuplicate(r)
    \/ \E r \in Runs : ExecLookupFail(r)
    \/ \E r \in Runs : ExecEvalFail(r)
    \/ \E r \in Runs : ExecEvalOK(r)
    \/ \E r \in Runs : ExecReturn(r)

SpecFlags == Init /\ [][NextFlags]_vars

\* ------------------------------------------------------------------ claims

Last(q) == q[Len(q)]

Unresolved(tid) == LookupRule(tid).err # Nil

RECURSIVE DistinctInOrder(_, _)
DistinctInOrder(ids, i) ==
    IF i > Len(ids) THEN <<>>
    ELSE IF \E j \in 1..(i - 1) : ids[j] = ids[i]
         THEN DistinctInOrder(ids, i + 1)
         ELSE <<ids[i]>> \o DistinctInOrder(ids, i + 1)

AllSucceed(r) ==
    \A i \in 1..Len(s[r].RuleIDs) :
        ~Unresolved(s[r].RuleIDs[i]) /\ s[r].RuleIDs[i] \notin failing

\* C1: a run in which every lookup and evaluation succeeds evaluates each
\* distinct rule ID exactly once, skips repeated IDs without failing, and
\* returns one rule result per distinct ID in the order of first occurrence.
C1_EachDistinctRuleOnce ==
    \A r \in Runs :
        (pc[r] = "done" /\ AllSucceed(r)) =>
            /\ ret[r].err = Nil
            /\ ret[r].result # Nil
            /\ [k \in 1..Len(evalLog[r]) |-> evalLog[r][k].rule]
                   = DistinctInOrder(s[r].RuleIDs, 1)
            /\ [k \in 1..Len(ret[r].result[1].RuleResults) |->
                    ret[r].result[1].RuleResults[k].Rule.ID]
                   = DistinctInOrder(s[r].RuleIDs, 1)

C1_Witness ==
    /\ pc["r1"] = "done"
    /\ s["r1"].RuleIDs = <<"a", "a", "b">>
    /\ AllSucceed("r1")
    /\ Len(evalLog["r1"]) = 2
    /\ Len(ret["r1"].result[1].RuleResults) = 2

FirstUnresolved(ids) ==
    CHOOSE i \in 1..Len(ids) :
        Unresolved(ids[i]) /\ \A j \in 1..(i - 1) : ~Unresolved(ids[j])

\* C2: when a rule ID of the collection cannot be resolved, the run returns
\* an error and a nil result, and no rule after the unresolved ID is looked
\* up or evaluated, whatever the earlier rules produced.
C2_UnknownRuleAborts ==
    \A r \in Runs :
        (pc[r] # "idle" /\ \E i \in 1..Len(s[r].RuleIDs) : Unresolved(s[r].RuleIDs[i])) =>
            /\ pc[r] = "done" => (ret[r].result = Nil /\ ret[r].err # Nil)
            /\ \A k \in 1..Len(lookupLog[r]) :
                   lookupLog[r][k] <= FirstUnresolved(s[r].RuleIDs)
            /\ \A k \in 1..Len(evalLog[r]) :
                   evalLog[r][k].at < FirstUnresolved(s[r].RuleIDs)

C2_Witness ==
    /\ pc["r1"] = "done"
    /\ s["r1"].RuleIDs = <<"a", "x", "b">>
    /\ Len(os["r1"]) = 1
    /\ lookupLog["r1"] = <<1, 2>>
    /\ ret["r1"].result = Nil
    /\ ret["r1"].err # Nil

\* C3: when the evaluation of a rule fails, it is the last evaluation of the
\* run, which returns a nil result and an error carrying the rule's name; no
\* later rule is looked up, even when earlier rules succeeded.
C3_EvalFailureAborts ==
    \A r \in Runs :
        \A k \in 1..Len(evalLog[r]) :
            evalLog[r][k].failed =>
                /\ k = Len(evalLog[r])
                /\ pc[r] = "done"
                /\ ret[r].result = Nil
                /\ ret[r].err # Nil
                /\ evalLog[r][k].name \in Range(ret[r].err)
                /\ Last(lookupLog[r]) = evalLog[r][k].at

C3_Witness ==
    /\ pc["r1"] = "done"
    /\ s["r1"].RuleIDs = <<"a", "b", "c">>
    /\ failing = {"b"}
    /\ Len(os["r1"]) = 1
    /\ ret["r1"] = [result |-> Nil, err |-> <<"rule", "Rule B", "search failed">>]

LookupAborted(r) ==
    /\ pc[r] = "done"
    /\ ret[r].err # Nil
    /\ lookupLog[r] # <<>>
    /\ Unresolved(s[r].RuleIDs[Last(lookupLog[r])])

\* C4, as stated: the error of a run aborted by an unresolved rule ID
\* identifies both the collection and the rule ID.
C4_ErrorNamesCollectionAndRule ==
    \A r \in Runs :
        LookupAborted(r) =>
            /\ s[r].ID \in Range(ret[r].err)
            /\ s[r].RuleIDs[Last(lookupLog[r])] \in Range(ret[r].err)

\* C4, amended: the error of a run aborted by an unresolved rule ID is
\* LookupRule's error for that ID, returned unchanged; it identifies the rule
\* ID and ExecuteCollection adds nothing to it.
C4_ErrorIsLookupError ==
    \A r \in Runs :
        LookupAborted(r) =>
            /\ ret[r].err = LookupRule(s[r].RuleIDs[Last(lookupLog[r])]).err
            /\ s[r].RuleIDs[Last(lookupLog[r])] \in Range(ret[r].err)

C4_Witness ==
    /\ LookupAborted("r1")
    /\ s["r1"] = [ID |-> "weekly", RuleIDs |-> <<"a", "x">>]
    /\ "x" \in Range(ret["r1"].err)
    /\ "weekly" \notin Range(ret["r1"].err)

SeenChain(r) ==
    /\ seen[r] = (IF evalLog[r] = <<>> THEN EmptySeen ELSE Last(evalLog[r]).seenOut)
    /\ \A k \in 1..Len(evalLog[r]) :
           /\ evalLog[r][k].seenIn =
                  (IF k = 1 THEN EmptySeen ELSE evalLog[r][k - 1].seenOut)
           /\ \A j \in 1..(k - 1) :
                  /\ evalLog[r][j].at < evalLog[r][k].at
                  /\ DOMAIN evalLog[r][j].seenOut \subseteq DOMAIN evalLog[r][k].seenIn

\* C5: within one run the rules are evaluated one at a time in declared order
\* with one seen set: empty before the first evaluation, and the k-th
\* evaluation observes exactly what the evaluations before it left, so every
\* item an earlier rule recorded is seen by every later rule.
C5_SeenThreaded ==
    \A r \in Runs : pc[r] # "idle" => SeenChain(r)

C5_Witness ==
    /\ pc["r1"] = "done"
    /\ s["r1"].RuleIDs = <<"a", "b", "c">>
    /\ Len(evalLog["r1"]) = 3
    /\ Len(os["r1"]) = 3
    /\ DOMAIN evalLog["r1"][3].seenIn = {"i1", "i2", "i3"}
    /\ os["r1"][2].Items = <<"i3">>
    /\ os["r1"][3].Items = <<>>

\* What ExecuteCollection returns for the rule IDs ids when nothing else runs.
RECURSIVE RunAlone(_, _, _, _, _)
RunAlone(ids, i, acc, sn, sr) ==
    IF i > Len(ids) THEN [result |-> <<SummarizeCollectionResult(acc)>>, err |-> Nil]
    ELSE IF ids[i] \in sr THEN RunAlone(ids, i + 1, acc, sn, sr)
    ELSE IF Unresolved(ids[i]) THEN [result |-> Nil, err |-> LookupRule(ids[i]).err]
    ELSE LET t == LookupRule(ids[i]).rule
             ex == ExecuteRule(t, sn)
         IN  IF ex.err # Nil
             THEN [result |-> Nil, err |-> <<"rule", t.Name>> \o ex.err]
             ELSE RunAlone(ids, i + 1, Append(acc, ex.ro[1]), ex.seen, sr \cup {ids[i]})

\* C6: when two runs interleave, each works on its own seen set and its own
\* processed-rule set: every evaluation of a run observes only what that
\* run's earlier evaluations recorded, and each run returns what it returns
\* when executed alone.
C6_RunsIsolated ==
    \A r \in Runs :
        /\ pc[r] # "idle" => SeenChain(r)
        /\ pc[r] = "done" => ret[r] = RunAlone(s[r].RuleIDs, 1, <<>>, EmptySeen, {})

C6_Witness ==
    /\ pc["r1"] = "loop" /\ pc["r2"] = "loop"
    /\ s["r1"].RuleIDs = <<"a", "b">>
    /\ s["r2"].RuleIDs = <<"b", "a">>
    /\ Len(evalLog["r1"]) = 2
    /\ Len(evalLog["r2"]) = 1
    /\ DOMAIN seen["r1"] = {"i1", "i2", "i3"}
    /\ os["r2"][1].Items = <<"i2", "i3">>

RECURSIVE CountItems(_, _, _)
CountItems(rs, types, i) ==
    IF i > Len(rs) THEN 0
    ELSE (IF rs[i].Rule.Type \in types THEN Len(rs[i].Items) ELSE 0)
             + CountItems(rs, types, i + 1)

RECURSIVE SumDays(_, _, _)
SumDays(rs, field, i) ==
    IF i > Len(rs) THEN 0 ELSE rs[i][field] + SumDays(rs, field, i + 1)

\* C7: Total is the number of items of all rule results, TotalPullRequests
\* that of the results whose rule is of pull-request kind, TotalIssues that
\* of all other results; the two add up to Total.
C7_Totals ==
    sumOut # <<>> =>
        /\ sumOut[1].Total = CountItems(sumIn, {PullRequest, Issue}, 1)
        /\ sumOut[1].TotalPullRequests = CountItems(sumIn, {PullRequest}, 1)
        /\ sumOut[1].TotalIssues = CountItems(sumIn, {Issue}, 1)
        /\ sumOut[1].TotalPullRequests + sumOut[1].TotalIssues = sumOut[1].Total

C7_Witness ==
    /\ sumOut # <<>>
    /\ Len(sumIn) = 2
    /\ sumIn[1].Rule.Type = Issue
    /\ sumOut[1].TotalPullRequests = 5
    /\ sumOut[1].TotalIssues = 2
    /\ sumOut[1].Total = 7

\* C8: when the rule results hold no item at all, the result is returned
\* with Total = 0 and the three averages zero, whatever the day totals.
C8_NoItemsNoAverages ==
    (sumOut # <<>> /\ \A i \in 1..Len(sumIn) : sumIn[i].Items = <<>>) =>
        /\ sumOut[1].Total = 0
        /\ sumOut[1].AvgAge = 0
        /\ sumOut[1].AvgCurrentHold = 0
        /\ sumOut[1].AvgAccumulatedHold = 0

C8_Witness ==
    /\ sumOut # <<>>
    /\ Len(sumIn) = 2
    /\ sumOut[1].Total = 0
    /\ sumOut[1].TotalAgeDays > 0
    /\ sumOut[1].TotalCurrentHoldDays > 0
    /\ sumOut[1].AvgAge = 0
    /\ sumOut[1].AvgCurrentHold = 0

\* floor(days / count * 24), for a day total of n units of 1/DayUnit day.
FloorHours(n, count) == (n * 24) \div (DayUnit * count)

\* C9: when Total > 0, each average is floor(total_days / Total * 24) hours,
\* total_days being the sum of the rule results' corresponding day totals
\* (day totals are not negative).
C9_AveragesTruncated ==
    (sumOut # <<>> /\ sumOut[1].Total > 0) =>
        /\ sumOut[1].AvgAge =
               FloorHours(SumDays(sumIn, "TotalAgeDays", 1), sumOut[1].Total)
        /\ sumOut[1].AvgCurrentHold =
               FloorHours(SumDays(sumIn, "TotalCurrentHoldDays", 1), sumOut[1].Total)
        /\ sumOut[1].AvgAccumulatedHold =
               FloorHours(SumDays(sumIn, "TotalAccumulatedHoldDays", 1), sumOut[1].Total)

C9_Witness ==
    /\ sumOut # <<>>
    /\ Len(sumIn) = 2
    /\ sumIn[1].TotalAgeDays = 10 * DayUnit
    /\ sumIn[2].TotalAgeDays = 5 * DayUnit
    /\ sumOut[1].Total = 3
    /\ sumOut[1].AvgAge = 120

\* The repository references of the rules of collection c.
Referenced(c) ==
    UNION {Range(LookupRule(c.RuleIDs[i]).rule.Repos) : i \in 1..Len(c.RuleIDs)}

Requests(ref) == {k \in 1..Len(flushLog) : flushLog[k].repo = ref}

\* C10: in a FlushSearchCache call that completes, every distinct repository
\* reference of the collection's rules is sent exactly one flush request, for
\* its organization and project, however often it or its rule is repeated and
\* whether or not the cache reported a failure; nothing else is requested.
C10_OneFlushPerRepo ==
    (fpc = "done" /\ fret = Nil) =>
        /\ \A ref \in Referenced(fs) :
               /\ Cardinality(Requests(ref)) = 1
               /\ \A k \in Requests(ref) :
                      /\ flushLog[k].org = parseRepo(ref).org
                      /\ flushLog[k].project = parseRepo(ref).project
        /\ \A k \in 1..Len(flushLog) : flushLog[k].repo \in Referenced(fs)

C10_Witness ==
    /\ fpc = "done"
    /\ fret = Nil
    /\ fs.RuleIDs = <<"a", "b", "a">>
    /\ Len(flushLog) = 3
    /\ flushLog[2].repo = "https://h/o1/p2"
    /\ flushLog[2].failed
    /\ ~flushLog[3].failed

\* The call meets no unknown collection, unknown rule or unparsable reference.
NoConfigError ==
    /\ LookupCollection(fid).err = Nil
    /\ \A i \in 1..Len(fs.RuleIDs) : ~Unresolved(fs.RuleIDs[i])
    /\ \A ref \in Referenced(fs) : parseRepo(ref).err = Nil

\* C11: a flush failure reported by the cache does not abort FlushSearchCache:
\* when no lookup or parse error occurs the call returns nil and every
\* distinct repository has been sent its request, even if every request
\* failed.
C11_FlushFailureNotFatal ==
    (fpc = "done" /\ NoConfigError) =>
        /\ fret = Nil
        /\ \A ref \in Referenced(fs) : Requests(ref) # {}

C11_Witness ==
    /\ fpc = "done"
    /\ fret = Nil
    /\ fs.RuleIDs = <<"a", "b">>
    /\ Len(flushLog) = 3
    /\ \A k \in 1..Len(flushLog) : flushLog[k].failed

\* The references of the rules before the first unresolved rule ID, in
\* iteration order (rules in declared order, each rule's Repos in order).
RECURSIVE RefsOfRules(_, _)
RefsOfRules(ids, i) ==
    IF i > Len(ids) \/ Unresolved(ids[i]) THEN <<>>
    ELSE LookupRule(ids[i]).rule.Repos \o RefsOfRules(ids, i + 1)

RECURSIVE ParsablePrefix(_, _)
ParsablePrefix(refs, i) ==
    IF i > Len(refs) \/ parseRepo(refs[i]).err # Nil THEN <<>>
    ELSE <<refs[i]>> \o ParsablePrefix(refs, i + 1)

\* The references that precede the failure point of a call on collection c.
PrecedingRefs(c) == ParsablePrefix(RefsOfRules(c.RuleIDs, 1), 1)

\* C12: an unknown collection ID, an unknown rule ID or an unparsable
\* repository reference makes FlushSearchCache return an error, and no flush
\* request is ever issued for the offending reference nor for a repository
\* that only comes after the failure point.
C12_ConfigErrorsFailFast ==
    /\ (fpc = "done" /\ ~NoConfigError) => fret # Nil
    /\ \A k \in 1..Len(flushLog) :
           /\ parseRepo(flushLog[k].repo).err = Nil
           /\ flushLog[k].repo \in Range(PrecedingRefs(fs))

C12_Witness ==
    /\ fpc = "done"
    /\ fs.RuleIDs = <<"c", "b">>
    /\ fret = <<"cannot parse", "bad repo">>
    /\ Len(flushLog) = 1
    /\ flushLog[1].repo = "https://h/o1/p1"

\* C19: when FlushSearchCache returns an error met part-way (an unknown rule
\* ID or an unparsable reference), the requests it has issued are exactly
\* those for the distinct references that precede the failure point, once
\* each and in iteration order; they stay issued although the call fails.
C19_PartialFlushOnError ==
    (fpc = "done" /\ fret # Nil /\ LookupCollection(fid).err = Nil) =>
        [k \in 1..Len(flushLog) |-> flushLog[k].repo]
            = DistinctInOrder(PrecedingRefs(fs), 1)

C19_Witness ==
    /\ fpc = "done"
    /\ fs.RuleIDs = <<"a", "b", "x">>
    /\ fret = LookupRule("x").err
    /\ [k \in 1..Len(flushLog) |-> flushLog[k].repo]
           = <<"https://h/o1/p1", "https://h/o1/p2", "https://h/o2/p1">>

RECURSIVE FirstOccurrences(_, _)
FirstOccurrences(tags, i) ==
    IF i > Len(tags) THEN <<>>
    ELSE IF \E j \in 1..(i - 1) : tags[j].ID = tags[i].ID
         THEN FirstOccurrences(tags, i + 1)
         ELSE <<tags[i]>> \o FirstOccurrences(tags, i + 1)

\* C13: Dedup returns the subsequence of its argument made of the first tag
\* of each distinct ID, in order, whatever the other fields of the later
\* tags; no two tags of the result share an ID and the result is not longer
\* than the argument.
C13_DedupKeepsFirstOccurrences ==
    tagOut # <<>> =>
        /\ tagOut[1] = FirstOccurrences(tagIn, 1)
        /\ \A i, j \in 1..Len(tagOut[1]) : i # j => tagOut[1][i].ID # tagOut[1][j].ID
        /\ Len(tagOut[1]) <= Len(tagIn)

C13_Witness ==
    /\ Len(tagIn) = 3
    /\ tagIn[1] = Approved
    /\ tagIn[2].ID = Approved.ID /\ tagIn[2] # Approved
    /\ tagIn[3] = Closed
    /\ tagOut = <<(<<Approved, Closed>>)>>

\* C14: Dedup is idempotent: Dedup(Dedup(x)) = Dedup(x).
C14_DedupIdempotent ==
    tagOut2 # <<>> => tagOut2[1] = tagOut[1]

C14_Witness ==
    /\ tagOut2 # <<>>
    /\ Len(tagIn) = 3
    /\ \A i \in 1..3 : tagIn[i].ID = Approved.ID
    /\ tagOut2 = <<(<<tagIn[1]>>)>>

\* C15: the registry enumeration Tags is exhaustive: every tag the var block
\* declares (None, declared last, among them) appears in the enumeration a
\* caller is handed.
C15_TagsExhaustive ==
    tagIn = Tags =>
        \A i \in 1..Len(DeclaredTags) : DeclaredTags[i] \in Range(tagIn)

\* C16: no two declared tags share an ID, so the IDs of Tags are pairwise
\* distinct and Dedup returns Tags unchanged.
C16_RegistryIDsUnique ==
    /\ \A i, j \in 1..Len(DeclaredTags) : i # j => DeclaredTags[i].ID # DeclaredTags[j].ID
    /\ \A i, j \in 1..Len(Tags) : i # j => Tags[i].ID # Tags[j].ID
    /\ (tagIn = Tags /\ tagOut # <<>>) => tagOut[1] = Tags

C16_Witness ==
    /\ tagIn = Tags
    /\ tagOut = <<Tags>>
    /\ Len(tagOut[1]) = 24

\* needle is a contiguous part of hay.
Contains(hay, needle) ==
    \E k \in 0..(Len(hay) - Len(needle)) : SubSeq(hay, k + 1, k + Len(needle)) = needle

RegistryIDs == {Tags[i].ID : i \in 1..Len(Tags)}

\* C17 as stated: RoleLast(role) is a tag whose ID is the role followed by
\* "-last", whose description contains the role and whose three flags are
\* false, and the tag is not part of the registry: neither the tag nor its
\* ID, which is what identifies a tag, is the registry's.
C17_RoleLastOutsideRegistry ==
    roleOut # <<>> =>
        /\ roleOut[1].ID = roleIn \o <<"-last">>
        /\ Contains(roleOut[1].Desc, roleIn)
        /\ ~roleOut[1].NeedsComments
        /\ ~roleOut[1].NeedsReviews
        /\ ~roleOut[1].NeedsTimeline
        /\ roleOut[1] \notin Range(Tags)
        /\ roleOut[1].ID \notin RegistryIDs

\* C17: RoleLast(role) is a tag whose ID is the role followed by "-last",
\* whose description is "The last commenter was a project " followed by the
\* role and whose three flags are false; the tag is never equal to a declared
\* tag, and its ID is a registry ID exactly for the role "author", where it
\* is AuthorLast's.
C17_RoleLast ==
    roleOut # <<>> =>
        /\ roleOut[1].ID = roleIn \o <<"-last">>
        /\ roleOut[1].Desc = <<"The last commenter was a project ">> \o roleIn
        /\ Contains(roleOut[1].Desc, roleIn)
        /\ ~roleOut[1].NeedsComments
        /\ ~roleOut[1].NeedsReviews
        /\ ~roleOut[1].NeedsTimeline
        /\ roleOut[1] \notin Range(Tags)
        /\ roleOut[1] \notin Range(DeclaredTags)
        /\ roleOut[1].ID \in RegistryIDs <=> roleIn = <<"author">>
        /\ roleIn = <<"author">> => roleOut[1].ID = AuthorLast.ID

C17_Witness ==
    /\ roleOut # <<>>
    /\ roleIn = <<"author">>
    /\ roleOut[1].ID = AuthorLast.ID
    /\ roleOut[1].Desc = <<"The last commenter was a project ", "author">>
    /\ roleOut[1] # AuthorLast

\* C18: LookupCollection(id) returns the first loaded collection whose ID is
\* exactly id, with no error, when there is one, and otherwise an error that
\* names id; ListCollections returns the loaded collections in loaded order
\* with no error; neither call changes the loaded collections.
C18_LookupAndList ==
    /\ [](lkRet # <<>> =>
            LET matches == {i \in 1..Len(collections) : collections[i].ID = lkId}
            IN  IF matches # {}
                THEN /\ lkRet[1].err = Nil
                     /\ lkRet[1].coll.ID = lkId
                     /\ \E i \in matches :
                            /\ \A j \in matches : i <= j
                            /\ lkRet[1].coll = collections[i]
                ELSE /\ lkRet[1].err # Nil
                     /\ lkId \in Range(lkRet[1].err))
    /\ [](listRet # <<>> =>
            /\ listRet[1].colls = collections
            /\ listRet[1].err = Nil)
    /\ [][collections' = collections]_vars

C18_Witness ==
    /\ Len(collections) = 3
    /\ collections[1].ID = "weekly"
    /\ collections[2] = [ID |-> "daily", RuleIDs |-> <<"b">>]
    /\ collections[3] = [ID |-> "daily", RuleIDs |-> <<"a">>]
    /\ lkId = "daily"
    /\ lkRet = <<[coll |-> collections[2], err |-> Nil]>>
    /\ listRet = <<[colls |-> collections, err |-> Nil]>>

IsPrefix(a, b) == Len(a) <= Len(b) /\ a = SubSeq(b, 1, Len(a))

\* C20: a run on a collection that differs from another run's only in Dedup,
\* Hidden, UsedForStats, Name or Description makes the same rule lookups and
\* the same evaluations, each with the run's seen set as the earlier
\* evaluations left it (whatever Dedup is), and returns the same result or
\* the same error.
C20_FlagsIgnored ==
    /\ \A r \in Runs : SeenChain(r)
    /\ pc["r2"] # "idle" =>
           /\ s["r2"].ID = s["r1"].ID
           /\ s["r2"].RuleIDs = s["r1"].RuleIDs
           /\ IsPrefix(lookupLog["r2"], lookupLog["r1"])
           /\ IsPrefix(evalLog["r2"], evalLog["r1"])
    /\ pc["r2"] = "done" =>
           /\ lookupLog["r2"] = lookupLog["r1"]
           /\ evalLog["r2"] = evalLog["r1"]
           /\ ret["r2"] = ret["r1"]

C20_Witness ==
    /\ pc["r2"] = "done"
    /\ s["r1"].RuleIDs = <<"a", "b">>
    /\ ~s["r1"].Dedup
    /\ s["r2"].Dedup /\ s["r2"].Hidden /\ s["r2"].UsedForStats
    /\ s["r2"].Name # s["r1"].Name
    /\ Len(evalLog["r1"]) = 2
    /\ evalLog["r1"][2].seenIn # EmptySeen
    /\ ret["r2"].err = Nil
    /\ ret["r2"].result[1].Total > 0
    /\ ret["r2"] = ret["r1"]

====
